---- MODULE Spec2Model ----
(***************************************************************************)
(* A model of the request/response contract layer of poem-openapi:         *)
(*   - the integer value types (types/external/integers.rs),               *)
(*   - DateTime<FixedOffset> (types/external/datetime.rs),                 *)
(*   - the blanket ApiRequest impl, ApiResponse, Option<SecurityScheme>    *)
(*     and CombinedAPI (base.rs),                                          *)
(*   - the PlainText payload (payload/plain_text.rs).                      *)
(*                                                                         *)
(* Every operation of the layer is a function of its arguments (plus the   *)
(* &mut RequestBody / &mut Registry / Route it is handed), so the state is *)
(* one call: which operation ran (op), on which arguments (args), and what *)
(* it returned and left behind (ret).                                      *)
(*                                                                         *)
(* Integers are decimal numerals [neg, mag] (mag: the digits, most         *)
(* significant first, no leading zero), so that the 64-bit bounds are the  *)
(* real ones.  Text is a sequence of one-character strings.                *)
(***************************************************************************)
EXTENDS Integers, Sequences, FiniteSets, TLC

VARIABLES op, args, ret

vars == <<op, args, ret>>

(***************************************************************************)
(* Bounds of the exploration.                                              *)
(***************************************************************************)
\* integers within MaxDelta of every MIN, every MAX and 0 are tried
MaxDelta == 1
\* API objects declare at most MaxOps operations each
MaxOps == 1

(***************************************************************************)
(* Decimal integers.                                                       *)
(***************************************************************************)
Digit == 0..9

RECURSIVE StripZeros(_)
StripZeros(m) ==
    IF Len(m) > 1 /\ Head(m) = 0 THEN StripZeros(Tail(m)) ELSE m

\* the integer with sign neg and digits m, in canonical form
Norm(neg, m) ==
    LET s == StripZeros(m)
    IN  [neg |-> neg /\ s # <<0>>, mag |-> s]

Dec(m) == Norm(FALSE, m)
Neg(m) == Norm(TRUE, m)
Zero == Dec(<<0>>)

RECURSIVE MagLessSameLen(_, _)
MagLessSameLen(a, b) ==
    IF a = <<>> THEN FALSE
    ELSE IF Head(a) # Head(b) THEN Head(a) < Head(b)
    ELSE MagLessSameLen(Tail(a), Tail(b))

MagLess(a, b) ==
    \/ Len(a) < Len(b)
    \/ Len(a) = Len(b) /\ MagLessSameLen(a, b)

\* x < y
Less(x, y) ==
    IF x.neg /\ ~y.neg THEN TRUE
    ELSE IF ~x.neg /\ y.neg THEN FALSE
    ELSE IF x.neg THEN MagLess(y.mag, x.mag)
    ELSE MagLess(x.mag, y.mag)

Leq(x, y) == x = y \/ Less(x, y)

RECURSIVE MagSucc(_)
MagSucc(m) ==
    IF m = <<>> THEN <<1>>
    ELSE LET n == Len(m)
         IN  IF m[n] < 9 THEN [m EXCEPT ![n] = m[n] + 1]
             ELSE Append(MagSucc(SubSeq(m, 1, n - 1)), 0)

\* m - 1, for m > 0
RECURSIVE MagPred(_)
MagPred(m) ==
    LET n == Len(m)
    IN  IF m[n] > 0 THEN [m EXCEPT ![n] = m[n] - 1]
        ELSE Append(MagPred(SubSeq(m, 1, n - 1)), 9)

Succ(x) == IF x.neg THEN Norm(TRUE, MagPred(x.mag)) ELSE Norm(FALSE, MagSucc(x.mag))
Pred(x) == IF x.neg \/ x = Zero THEN Norm(TRUE, MagSucc(x.mag))
           ELSE Norm(FALSE, MagPred(x.mag))

RECURSIVE Plus(_, _)
Plus(x, d) == IF d = 0 THEN x
              ELSE IF d > 0 THEN Plus(Succ(x), d - 1)
              ELSE Plus(Pred(x), d + 1)

(***************************************************************************)
(* The integer types and their native bounds.                              *)
(***************************************************************************)
SignedTypes == {"i8", "i16", "i32", "i64"}
UnsignedTypes == {"u8", "u16", "u32", "u64"}
IntTypes == SignedTypes \cup UnsignedTypes

I64_MIN == Neg(<<9,2,2,3,3,7,2,0,3,6,8,5,4,7,7,5,8,0,8>>)
I64_MAX == Dec(<<9,2,2,3,3,7,2,0,3,6,8,5,4,7,7,5,8,0,7>>)
U64_MAX == Dec(<<1,8,4,4,6,7,4,4,0,7,3,7,0,9,5,5,1,6,1,5>>)

\* Self::MIN
TypeMin(ty) ==
    CASE ty = "i8"  -> Neg(<<1,2,8>>)
      [] ty = "i16" -> Neg(<<3,2,7,6,8>>)
      [] ty = "i32" -> Neg(<<2,1,4,7,4,8,3,6,4,8>>)
      [] ty = "i64" -> I64_MIN
      [] ty \in UnsignedTypes -> Zero

\* Self::MAX
TypeMax(ty) ==
    CASE ty = "i8"  -> Dec(<<1,2,7>>)
      [] ty = "i16" -> Dec(<<3,2,7,6,7>>)
      [] ty = "i32" -> Dec(<<2,1,4,7,4,8,3,6,4,7>>)
      [] ty = "i64" -> I64_MAX
      [] ty = "u8"  -> Dec(<<2,5,5>>)
      [] ty = "u16" -> Dec(<<6,5,5,3,5>>)
      [] ty = "u32" -> Dec(<<4,2,9,4,9,6,7,2,9,5>>)
      [] ty = "u64" -> U64_MAX

InRange(ty, x) == Leq(TypeMin(ty), x) /\ Leq(x, TypeMax(ty))

(***************************************************************************)
(* serde_json::Number as the integer impls use it.                         *)
(***************************************************************************)
PosInt(x) == [rep |-> "PosInt", val |-> x]
NegInt(x) == [rep |-> "NegInt", val |-> x]
Float(x)  == [rep |-> "Float",  val |-> x]

\* The Number that an integer JSON literal arrives as: a u64 when it is not
\* negative, an i64 when it is, and a float when it fits neither.
NumberOfLiteral(x) ==
    IF ~x.neg /\ Leq(x, U64_MAX) THEN PosInt(x)
    ELSE IF x.neg /\ Leq(I64_MIN, x) THEN NegInt(x)
    ELSE Float(x)

None == [some |-> FALSE]
Some(v) == [some |-> TRUE, val |-> v]

\* n.as_i64()
AsI64(n) ==
    CASE n.rep = "PosInt" -> IF Leq(n.val, I64_MAX) THEN Some(n.val) ELSE None
      [] n.rep = "NegInt" -> Some(n.val)
      [] n.rep = "Float"  -> None

\* n.as_u64()
AsU64(n) ==
    CASE n.rep = "PosInt" -> Some(n.val)
      [] n.rep = "NegInt" -> None
      [] n.rep = "Float"  -> None

(***************************************************************************)
(* serde_json::Value.                                                      *)
(***************************************************************************)
JsonNull      == [kind |-> "Null"]
JsonBool(b)   == [kind |-> "Bool", b |-> b]
JsonString(s) == [kind |-> "String", s |-> s]
JsonNumber(n) == [kind |-> "Number", n |-> n]
JsonArray     == [kind |-> "Array"]
JsonObject    == [kind |-> "Object"]

(***************************************************************************)
(* ParseResult<T> and the ParseError constructors.                         *)
(***************************************************************************)
Ok(v)  == [ok |-> TRUE, val |-> v]
Err(e) == [ok |-> FALSE, err |-> e]

\* ParseError::from("invalid integer")
InvalidInteger == [kind |-> "message", msg |-> "invalid integer"]
\* ParseError::from(format!("Only integers from {} to {} are accepted.", MIN, MAX))
OutOfRange(ty) == [kind |-> "out_of_range", min |-> TypeMin(ty), max |-> TypeMax(ty)]
\* ParseError::expected_type(value)
ExpectedType(value) == [kind |-> "expected_type", found |-> value]
\* ParseError::expected_input()
ExpectedInput == [kind |-> "expected_input"]
\* ParseError::custom(err)
Custom(e) == [kind |-> "custom", detail |-> e]
\* the conversion `?` applies to a foreign error
FromError(e) == [kind |-> "message", msg |-> e]

(***************************************************************************)
(* impl_type_for_integers! / impl_type_for_unsigneds!                      *)
(***************************************************************************)
\* a faulty variant: the unsigned impls copied from the signed ones, as_i64 kept
AsCarrier_AlwaysI64(ty, n) == AsI64(n)

\* n.as_i64() in the signed impls, n.as_u64() in the unsigned ones
AsCarrier(ty, n) == IF ty \in SignedTypes THEN AsI64(n) ELSE AsU64(n)

\* n < Self::MIN as i64 || n > Self::MAX as i64   (as u64 for the unsigneds)
RangeCheckFails(ty, x) == Less(x, TypeMin(ty)) \/ Less(TypeMax(ty), x)

\* `n as Self`: reached only past the range check, where the cast keeps the value
CastToSelf(ty, x) == x

ParseFromJSON(ty, value) ==
    IF value.kind = "Number"
    THEN LET c == AsCarrier(ty, value.n)
         IN  IF ~c.some THEN Err(InvalidInteger)
             ELSE IF RangeCheckFails(ty, c.val) THEN Err(OutOfRange(ty))
             ELSE Ok(CastToSelf(ty, c.val))
    ELSE Err(ExpectedType(value))

\* Number::from(v): the From<i8..i64> impls pick NegInt below zero, the
\* From<u8..u64> impls always PosInt
NumberFrom(ty, x) ==
    IF ty \in SignedTypes /\ x.neg THEN NegInt(x) ELSE PosInt(x)

ToJSON(ty, x) == JsonNumber(NumberFrom(ty, x))

(***************************************************************************)
(* str::parse::<$ty>(): core's from_str_radix(s, 10), on text as a         *)
(* sequence of characters.                                                 *)
(***************************************************************************)
DigitChars == <<"0", "1", "2", "3", "4", "5", "6", "7", "8", "9">>
IsDigitChar(c) == \E d \in Digit : DigitChars[d + 1] = c
DigitOf(c) == CHOOSE d \in Digit : DigitChars[d + 1] = c

\* the digits accumulated with checked_mul / checked_add (checked_sub
\* when the text is negative)
RECURSIVE Accumulate(_, _, _, _)
Accumulate(ty, ds, acc, positive) ==
    IF ds = <<>> THEN Ok(acc)
    ELSE IF ~IsDigitChar(Head(ds)) THEN Err("InvalidDigit")
    ELSE LET mul == Norm(acc.neg, Append(acc.mag, 0))
             k   == Len(mul.mag)
             nxt == Norm(~positive, [mul.mag EXCEPT ![k] = DigitOf(Head(ds))])
             overflow == IF positive THEN "PosOverflow" ELSE "NegOverflow"
         IN  IF ~InRange(ty, mul) THEN Err(overflow)
             ELSE IF ~InRange(ty, nxt) THEN Err(overflow)
             ELSE Accumulate(ty, Tail(ds), nxt, positive)

FromStr(ty, s) ==
    IF s = <<>> THEN Err("Empty")
    ELSE IF s[1] \in {"+", "-"} /\ Len(s) = 1 THEN Err("InvalidDigit")
    ELSE IF s[1] = "+" THEN Accumulate(ty, Tail(s), Zero, TRUE)
    ELSE IF s[1] = "-" /\ ty \in SignedTypes THEN Accumulate(ty, Tail(s), Zero, FALSE)
    ELSE Accumulate(ty, s, Zero, TRUE)

\* a faulty variant: `?` in place of map_err(ParseError::custom)
MapErrCustom_Question(r) == IF r.ok THEN r ELSE Err([kind |-> "message", msg |-> r.err])

\* value.parse().map_err(ParseError::custom)
MapErrCustom(r) == IF r.ok THEN r ELSE Err(Custom(r.err))

\* the `?` on a foreign Result
Try(r) == IF r.ok THEN r ELSE Err(FromError(r.err))

\* a faulty variant: a missing parameter read as the default value
ParseFromParameter_Default(ty, value) ==
    IF value.some THEN MapErrCustom(FromStr(ty, value.val))
    ELSE Ok(Zero)

ParseFromParameter(ty, value) ==
    IF value.some THEN MapErrCustom(FromStr(ty, value.val))
    ELSE Err(ExpectedInput)

\* field: None, or Some of what field.text().await answers
ParseFromMultipart(ty, field) ==
    IF field.some
    THEN LET text == Try(field.val)
         IN  IF ~text.ok THEN text ELSE Try(FromStr(ty, text.val))
    ELSE Err(ExpectedInput)

(***************************************************************************)
(* DateTime<FixedOffset>.  chrono decides what a text parses to; its       *)
(* answer for the text at hand comes with the call.                        *)
(***************************************************************************)
DateTimeParseFromParameter(value, chrono) ==
    IF value.some THEN Try(chrono) ELSE Err(ExpectedInput)

DateTimeParseFromMultipart(field, chrono) ==
    IF field.some
    THEN LET text == Try(field.val)
         IN  IF ~text.ok THEN text ELSE Try(chrono)
    ELSE Err(ExpectedInput)

(***************************************************************************)
(* Inputs.                                                                 *)
(***************************************************************************)
Near(x) == {Plus(x, d) : d \in -MaxDelta..MaxDelta}

Anchors == {TypeMin(ty) : ty \in IntTypes} \cup {TypeMax(ty) : ty \in IntTypes}
              \cup {Zero}

Literals == UNION {Near(a) : a \in Anchors}

\* to_string() of an integer
ToText(x) ==
    LET ds == [i \in 1..Len(x.mag) |-> DigitChars[x.mag[i] + 1]]
    IN  IF x.neg THEN <<"-">> \o ds ELSE ds

JsonValues ==
    {JsonNumber(NumberOfLiteral(x)) : x \in Literals}
        \cup {JsonNumber(Float(Dec(<<1>>))), JsonNull, JsonBool(TRUE),
              JsonString(ToText(Dec(<<1>>))), JsonArray, JsonObject}

ParamTexts ==
    {ToText(x) : x \in Literals}
        \cup {<<"+">> \o ToText(x) : x \in {TypeMax(ty) : ty \in IntTypes}}
        \cup {<<"0">> \o ToText(x) : x \in {TypeMax(ty) : ty \in IntTypes}}
        \cup {<<>>, <<"-">>, <<"+">>, <<"a">>, <<"1", "x">>, <<"1", ".", "5">>,
              <<" ", "1">>, <<"-", "0">>}

ValuesOf(ty) == {x \in Literals : InRange(ty, x)}

IoError == Err("io error")
FieldTexts == {Ok(t) : t \in ParamTexts} \cup {IoError}

ChronoAnswers == {Ok("2021-09-30T12:00:00+08:00"), Err("input contains invalid characters"),
                  Err("premature end of input")}

(***************************************************************************)
(* Content types: text, parsed the way `content_type.parse::<Mime>()`      *)
(* parses it (a type token, "/", a subtype token, then ";"-separated       *)
(* name=value parameters; quoted parameter values are not among the        *)
(* inputs), the source kept in ASCII lower case.                           *)
(***************************************************************************)
LowerChars == <<"a", "b", "c", "d", "e", "f", "g", "h", "i", "j", "k", "l", "m",
                "n", "o", "p", "q", "r", "s", "t", "u", "v", "w", "x", "y", "z">>
UpperChars == <<"A", "B", "C", "D", "E", "F", "G", "H", "I", "J", "K", "L", "M",
                "N", "O", "P", "Q", "R", "S", "T", "U", "V", "W", "X", "Y", "Z">>

ToAsciiLowerChar(c) ==
    IF \E i \in 1..Len(UpperChars) : UpperChars[i] = c
    THEN LowerChars[CHOOSE i \in 1..Len(UpperChars) : UpperChars[i] = c]
    ELSE c

ToAsciiLowercase(s) == [i \in 1..Len(s) |-> ToAsciiLowerChar(s[i])]

TokenChars ==
    {LowerChars[i] : i \in 1..Len(LowerChars)}
        \cup {UpperChars[i] : i \in 1..Len(UpperChars)}
        \cup {DigitChars[i] : i \in 1..Len(DigitChars)}
        \cup {"!", "#", "$", "%", "&", "*", "+", "-", ".", "^", "_", "|", "~"}

IsToken(c) == c \in TokenChars

\* a parsed Mime: its lower-case source and where its parameters start
\* (0: it has none)
Mime(source, semicolon) == [source |-> source, semicolon |-> semicolon]

RECURSIVE ParamsLoop(_, _, _, _)
RECURSIVE ParamName(_, _, _, _, _)
RECURSIVE ParamValue(_, _, _, _)

\* the source of a Mime whose text ends at a parameter list: chopped at
\* the semicolon when the list is empty
MimeWithParams(s, semicolon, any) ==
    IF any THEN Mime(ToAsciiLowercase(s), semicolon)
    ELSE Mime(ToAsciiLowercase(SubSeq(s, 1, semicolon - 1)), 0)

ParamsLoop(s, k, semicolon, any) ==
    IF k > Len(s) THEN Ok(MimeWithParams(s, semicolon, any))
    ELSE ParamName(s, k, k, semicolon, any)

ParamName(s, k, start, semicolon, any) ==
    IF k > Len(s) THEN Err("MissingEqual")
    ELSE IF s[k] = " " /\ k = start THEN ParamsLoop(s, k + 1, semicolon, any)
    ELSE IF IsToken(s[k]) THEN ParamName(s, k + 1, start, semicolon, any)
    ELSE IF s[k] = "=" /\ k > start THEN ParamValue(s, k + 1, k + 1, semicolon)
    ELSE Err("InvalidToken")

ParamValue(s, k, start, semicolon) ==
    IF k > Len(s) THEN Ok(MimeWithParams(s, semicolon, TRUE))
    ELSE IF IsToken(s[k]) THEN ParamValue(s, k + 1, start, semicolon)
    ELSE IF s[k] = ";" /\ k > start THEN ParamsLoop(s, k + 1, semicolon, TRUE)
    ELSE Err("InvalidToken")

RECURSIVE ParseSubLevel(_, _, _)
ParseSubLevel(s, k, start) ==
    IF k > Len(s) THEN Ok(Mime(ToAsciiLowercase(s), 0))
    ELSE IF s[k] = "+" /\ k > start THEN ParseSubLevel(s, k + 1, start)
    ELSE IF s[k] = ";" /\ k > start THEN ParamsLoop(s, k + 1, k, FALSE)
    ELSE IF IsToken(s[k]) THEN ParseSubLevel(s, k + 1, start)
    ELSE Err("InvalidToken")

RECURSIVE ParseTopLevel(_, _)
ParseTopLevel(s, k) ==
    IF k > Len(s) THEN Err("MissingSlash")
    ELSE IF IsToken(s[k]) THEN ParseTopLevel(s, k + 1)
    ELSE IF s[k] = "/" /\ k > 1 THEN ParseSubLevel(s, k + 1, k + 1)
    ELSE Err("InvalidToken")

\* content_type.parse::<Mime>()
ParseMime(s) == ParseTopLevel(s, 1)

\* mime.essence_str()
EssenceStr(mime) ==
    IF mime.semicolon = 0 THEN mime.source
    ELSE SubSeq(mime.source, 1, mime.semicolon - 1)

(***************************************************************************)
(* Payloads.                                                               *)
(***************************************************************************)
TextPlain == <<"t", "e", "x", "t", "/", "p", "l", "a", "i", "n">>
ApplicationJson == <<"a", "p", "p", "l", "i", "c", "a", "t", "i", "o", "n", "/", "j", "s", "o", "n">>

PayloadTypes == {"PlainText", "Json"}

\* T::CONTENT_TYPE
CONTENT_TYPE(T) ==
    CASE T = "PlainText" -> TextPlain
      [] T = "Json" -> ApplicationJson

\* T::schema_ref()
PayloadSchemaRef(T) ==
    CASE T = "PlainText" -> [inline |-> "string"]
      [] T = "Json" -> [inline |-> "object"]

\* ParseRequestError
ExpectContentType == [kind |-> "ExpectContentType"]
ContentTypeNotSupported(content_type) ==
    [kind |-> "ContentTypeNotSupported", content_type |-> content_type]
ParseRequestBody(reason) == [kind |-> "ParseRequestBody", reason |-> reason]

\* A RequestBody: whether it was taken already, and what its stream holds.
Body(taken, data) == [taken |-> taken, data |-> data]
BodyData == {"hello: test", "{\"a\": 1}", "<invalid utf-8>", "<io error>"}

\* what a call hands back: its result, the body as it leaves it, and
\* whether the payload's parser ran
Outcome(result, body, parsed) == [result |-> result, body |-> body, parsed |-> parsed]

\* String::from_request(request, body)
StringFromRequest(body) ==
    IF body.taken THEN Outcome(Err("the body has been taken"), body, TRUE)
    ELSE LET left == Body(TRUE, body.data)
         IN  CASE body.data = "<io error>" -> Outcome(Err("io error"), left, TRUE)
               [] body.data = "<invalid utf-8>" -> Outcome(Err("invalid utf-8"), left, TRUE)
               [] OTHER -> Outcome(Ok(body.data), left, TRUE)

\* <PlainText<String> as ParsePayload>::from_request
PlainTextFromRequest(body) ==
    LET r == StringFromRequest(body)
    IN  IF r.result.ok THEN Outcome(Ok([PlainText |-> r.result.val]), r.body, TRUE)
        ELSE Outcome(Err(ParseRequestBody(r.result.err)), r.body, TRUE)

\* <Json<T> as ParsePayload>::from_request
JsonFromRequest(body) ==
    LET r == StringFromRequest(body)
    IN  IF ~r.result.ok THEN Outcome(Err(ParseRequestBody(r.result.err)), r.body, TRUE)
        ELSE IF r.result.val = "{\"a\": 1}" THEN Outcome(Ok([Json |-> r.result.val]), r.body, TRUE)
        ELSE Outcome(Err(ParseRequestBody("expected value")), r.body, TRUE)

\* <T as ParsePayload>::from_request(request, body)
ParsePayloadFromRequest(T, request, body) ==
    CASE T = "PlainText" -> PlainTextFromRequest(body)
      [] T = "Json" -> JsonFromRequest(body)

(***************************************************************************)
(* impl<T: Payload + ParsePayload> ApiRequest for T                        *)
(***************************************************************************)
MetaMediaType(content_type, schema) == [content_type |-> content_type, schema |-> schema]

\* <T as ApiRequest>::meta()
ApiRequestMeta(T) ==
    [description |-> None,
     content |-> <<MetaMediaType(CONTENT_TYPE(T), PayloadSchemaRef(T))>>,
     required |-> TRUE]

\* a faulty variant: the error names the parsed essence, not the header as received
ApiRequestFromRequest_ReportsEssence(T, request, body) ==
    IF request.content_type.some
    THEN LET content_type == request.content_type.val
             mime == ParseMime(content_type)
         IN  IF ~mime.ok
             THEN Outcome(Err(ContentTypeNotSupported(content_type)), body, FALSE)
             ELSE IF EssenceStr(mime.val) # CONTENT_TYPE(T)
             THEN Outcome(Err(ContentTypeNotSupported(EssenceStr(mime.val))), body, FALSE)
             ELSE ParsePayloadFromRequest(T, request, body)
    ELSE Outcome(Err(ExpectContentType), body, FALSE)

\* a faulty variant: the whole header compared, parameters included
ApiRequestFromRequest_WholeHeader(T, request, body) ==
    IF request.content_type.some
    THEN LET content_type == request.content_type.val
             mime == ParseMime(content_type)
         IN  IF ~mime.ok
             THEN Outcome(Err(ContentTypeNotSupported(content_type)), body, FALSE)
             ELSE IF mime.val.source # CONTENT_TYPE(T)
             THEN Outcome(Err(ContentTypeNotSupported(content_type)), body, FALSE)
             ELSE ParsePayloadFromRequest(T, request, body)
    ELSE Outcome(Err(ExpectContentType), body, FALSE)

\* <T as ApiRequest>::from_request(request, body)
ApiRequestFromRequest(T, request, body) ==
    IF request.content_type.some
    THEN LET content_type == request.content_type.val
             mime == ParseMime(content_type)
         IN  IF ~mime.ok
             THEN Outcome(Err(ContentTypeNotSupported(content_type)), body, FALSE)
             ELSE IF EssenceStr(mime.val) # CONTENT_TYPE(T)
             THEN Outcome(Err(ContentTypeNotSupported(content_type)), body, FALSE)
             ELSE ParsePayloadFromRequest(T, request, body)
    ELSE Outcome(Err(ExpectContentType), body, FALSE)

\* the heads and tails the content-type headers are put together from
ContentTypeHeads == {
    <<"t", "e", "x", "t", "/", "p", "l", "a", "i", "n">>,
    <<"T", "E", "X", "T", "/", "P", "L", "A", "I", "N">>,
    <<"T", "e", "x", "t", "/", "P", "l", "a", "i", "n">>,
    <<"a", "p", "p", "l", "i", "c", "a", "t", "i", "o", "n", "/", "j", "s", "o", "n">>,
    <<"A", "p", "p", "l", "i", "c", "a", "t", "i", "o", "n", "/", "J", "S", "O", "N">>,
    <<"t", "e", "x", "t", "/", "h", "t", "m", "l">>,
    <<"t", "e", "x", "t", "/", "p", "l", "a", "i", "n", "x">>,
    <<"t", "e", "x", "t">>,
    <<"t", "e", "x", "t", "/">>,
    <<"/", "p", "l", "a", "i", "n">>,
    <<>>,
    <<"t", "e", " ", "x", "t", "/", "p", "l", "a", "i", "n">>,
    <<"t", "e", "x", "t", "/", "x", "+", "j", "s", "o", "n">>}

ContentTypeTails == {
    <<>>,
    <<";">>,
    <<";", " ", "c", "h", "a", "r", "s", "e", "t", "=", "u", "t", "f", "-", "8">>,
    <<";", "c", "h", "a", "r", "s", "e", "t", "=", "U", "T", "F", "-", "8">>,
    <<" ", ";", " ", "c", "h", "a", "r", "s", "e", "t", "=", "u", "t", "f", "-", "8">>,
    <<";", " ", "c", "h", "a", "r", "s", "e", "t">>,
    <<";", "=", "x">>,
    <<";", " ", "c", "h", "a", "r", "s", "e", "t", "=", "u", "t", "f", "-", "8", ";", " ", "b", "o", "u", "n", "d", "a", "r", "y", "=", "x">>}

\* inputs: request.content_type()
ContentTypes == {h \o t : h \in ContentTypeHeads, t \in ContentTypeTails}

Requests == {[content_type |-> c] : c \in {None} \cup {Some(t) : t \in ContentTypes}}

Bodies == {Body(FALSE, d) : d \in BodyData} \cup {Body(TRUE, "hello: test")}

(***************************************************************************)
(* The Registry: named schemas and named security schemes.  An insertion   *)
(* under a name already there changes nothing.                             *)
(***************************************************************************)
EmptyMap == [x \in {} |-> x]

Registry(schemas, security_schemes) ==
    [schemas |-> schemas, security_schemes |-> security_schemes]

InsertIfAbsent(map, name, def) == map @@ (name :> def)

CreateSchema(registry, name, schema) ==
    [registry EXCEPT !.schemas = InsertIfAbsent(@, name, schema)]

CreateSecurityScheme(registry, name, scheme) ==
    [registry EXCEPT !.security_schemes = InsertIfAbsent(@, name, scheme)]

\* inputs: the registry a register call is handed
Registries ==
    {Registry(sc, ss) :
        sc \in {EmptyMap, "Pet" :> "an earlier Pet"},
        ss \in {EmptyMap, "MyBasicAuthorization" :> "an earlier scheme"}}

(***************************************************************************)
(* Security schemes.  The schemes themselves are derived types: a Basic    *)
(* one read from the authorization header and an API key read from the     *)
(* query.                                                                  *)
(***************************************************************************)
SecuritySchemes == {"MyBasicAuthorization", "MyApiKey"}

\* S::NAME
SchemeName(S) == S

AuthorizationError == [kind |-> "Authorization"]

\* the credentials a Basic authorization header decodes to
BasicCredentials(header) ==
    CASE header = "Basic dGVzdDoxMjM0NTY=" -> Some([username |-> "test", password |-> "123456"])
      [] header = "Basic dGVzdDp3cm9uZw==" -> Some([username |-> "test", password |-> "wrong"])
      [] OTHER -> None

\* S::from_request(req, query)
SchemeFromRequest(S, req, query) ==
    CASE S = "MyBasicAuthorization" ->
            IF ~req.authorization.some THEN Err(AuthorizationError)
            ELSE IF ~BasicCredentials(req.authorization.val).some THEN Err(AuthorizationError)
            ELSE Ok([Basic |-> BasicCredentials(req.authorization.val).val])
      [] S = "MyApiKey" ->
            IF "key" \in DOMAIN query THEN Ok([ApiKey |-> query["key"]])
            ELSE Err(AuthorizationError)

\* S::register(registry)
SchemeRegister(S, registry) ==
    CreateSecurityScheme(registry, SchemeName(S), [scheme |-> S])

\* <Option<T> as SecurityScheme>::NAME
OptionName(T) == SchemeName(T)

\* <Option<T> as SecurityScheme>::register(registry)
OptionRegister(T, registry) == SchemeRegister(T, registry)

\* Result::ok()
ResultOk(r) == IF r.ok THEN Some(r.val) ELSE None

\* a faulty variant: the scheme's error passed on: T::from_request(..).await.map(Some)
OptionFromRequest_PassesError(T, req, query) ==
    LET r == SchemeFromRequest(T, req, query)
    IN  IF r.ok THEN Ok(Some(r.val)) ELSE r

\* <Option<T> as SecurityScheme>::from_request(req, query)
OptionFromRequest(T, req, query) ==
    Ok(ResultOk(SchemeFromRequest(T, req, query)))

\* inputs: the request's authorization header and the query map
AuthRequests ==
    {[authorization |-> a] :
        a \in {None, Some("Basic dGVzdDoxMjM0NTY="), Some("Basic dGVzdDp3cm9uZw=="),
               Some("Basic !!!"), Some("Bearer abc"), Some("")}}

Queries == {EmptyMap, "key" :> "secret", "key" :> "", "other" :> "x",
            ("key" :> "secret") @@ ("other" :> "x")}

(***************************************************************************)
(* API objects.  An API object written by the user declares operations on  *)
(* paths and the types they use; combine pairs two API objects.            *)
(***************************************************************************)
Paths == {"/a", "/b"}
TypeNames == {"Pet"}

RECURSIVE SeqsUpTo(_, _)
SeqsUpTo(S, n) ==
    IF n = 0 THEN {<<>>}
    ELSE LET shorter == SeqsUpTo(S, n - 1)
         IN  shorter \cup {Append(q, x) : q \in {r \in shorter : Len(r) = n - 1}, x \in S}

\* the API objects named id: up to MaxOps operations, some of the types
UserApis(id) ==
    {[id |-> id, paths |-> ps, types |-> ts] :
        ps \in SeqsUpTo(Paths, MaxOps), ts \in SUBSET TypeNames}

\* the endpoint of the i-th operation of an API object
Endpoint(api, i) == <<api.id, i>>

\* meta() of a user's API object: one MetaApi, its operations in order
UserApiMeta(api) ==
    <<[paths |-> [i \in 1..Len(api.paths) |->
                     [path |-> api.paths[i], operation |-> Endpoint(api, i)]]]>>

RECURSIVE RegisterTypes(_, _, _)
RegisterTypes(api, names, registry) ==
    IF names = {} THEN registry
    ELSE LET n == CHOOSE x \in names : TRUE
         IN  RegisterTypes(api, names \ {n}, CreateSchema(registry, n, <<api.id, n>>))

\* register(registry) of a user's API object
UserApiRegister(api, registry) == RegisterTypes(api, api.types, registry)

\* route.at(path, ep): the later registration of a path is the one in effect
RouteAt(route, path, ep) == (path :> ep) @@ route

RECURSIVE AddOperations(_, _, _)
AddOperations(api, i, route) ==
    IF i > Len(api.paths) THEN route
    ELSE AddOperations(api, i + 1, RouteAt(route, api.paths[i], Endpoint(api, i)))

\* add_routes(self, route) of a user's API object
UserApiAddRoutes(api, route) == AddOperations(api, 1, route)

Api(api) == [kind |-> "api", api |-> api]

\* OpenApi::combine(self, other)
Combine(self, other) == [kind |-> "combined", a |-> self, b |-> other]

RECURSIVE Meta(_)
RECURSIVE Register(_, _)
RECURSIVE AddRoutes(_, _)

\* a faulty variant: the operands' metadata in the other order
CombinedAPIMeta_Swapped(A, B) == Meta(B) \o Meta(A)

\* <CombinedAPI<A, B> as OpenApi>::meta()
CombinedAPIMeta(A, B) ==
    LET metadata == Meta(A)
    IN  metadata \o Meta(B)

\* <CombinedAPI<A, B> as OpenApi>::register(registry)
CombinedAPIRegister(A, B, registry) == Register(B, Register(A, registry))

\* a faulty variant: the operands applied in the other order
CombinedAPIAddRoutes_Swapped(A, B, route) == AddRoutes(A, AddRoutes(B, route))

\* <CombinedAPI<A, B> as OpenApi>::add_routes(self, route)
CombinedAPIAddRoutes(A, B, route) == AddRoutes(B, AddRoutes(A, route))

\* T::meta()
Meta(T) ==
    IF T.kind = "api" THEN UserApiMeta(T.api) ELSE CombinedAPIMeta(T.a, T.b)

\* T::register(registry)
Register(T, registry) ==
    IF T.kind = "api" THEN UserApiRegister(T.api, registry)
    ELSE CombinedAPIRegister(T.a, T.b, registry)

\* self.add_routes(route)
AddRoutes(T, route) ==
    IF T.kind = "api" THEN UserApiAddRoutes(T.api, route)
    ELSE CombinedAPIAddRoutes(T.a, T.b, route)

\* inputs: API objects A, B, C in declaration order, combined as A.combine(B),
\* (A.combine(B)).combine(C) or A.combine(B.combine(C))
Compositions ==
    {[leaves |-> <<A, B>>, api |-> Combine(Api(A), Api(B))] :
        A \in UserApis("A"), B \in UserApis("B")}
    \cup
    {[leaves |-> <<A, B, C>>, api |-> Combine(Combine(Api(A), Api(B)), Api(C))] :
        A \in UserApis("A"), B \in UserApis("B"), C \in UserApis("C")}
    \cup
    {[leaves |-> <<A, B, C>>, api |-> Combine(Api(A), Combine(Api(B), Api(C)))] :
        A \in UserApis("A"), B \in UserApis("B"), C \in UserApis("C")}

\* inputs: the route table add_routes is handed
Routes == {EmptyMap, "/a" :> <<"base", 1>>}

(***************************************************************************)
(* Response types: (), PlainText<T>, Result<T, E>, and two derived ones,   *)
(* one of which declares a bad-request handler.                            *)
(***************************************************************************)
Unit == [kind |-> "()"]
PlainTextResponse == [kind |-> "PlainText"]
Derived(name) == [kind |-> "derived", name |-> name]
Result(T) == [kind |-> "Result", ok |-> T]

DerivedResponses == {Derived("CreateUserResponse"), Derived("BadRequestAwareResponse")}

\* inputs: the response types, Result nested up to twice
ResponseTypes ==
    LET base == {Unit, PlainTextResponse} \cup DerivedResponses
        once == {Result(T) : T \in base}
    IN  base \cup once \cup {Result(T) : T \in once}

\* the BAD_REQUEST_HANDLER a derived response type declares
DerivedBadRequestHandler(R) == R.name = "BadRequestAwareResponse"

\* the trait's default: const BAD_REQUEST_HANDLER: bool = false
DefaultBadRequestHandler == FALSE

\* a faulty variant: Result<T, E> taking the flag from T
BAD_REQUEST_HANDLER_FromOk(R) ==
    CASE R.kind = "derived" -> DerivedBadRequestHandler(R)
      [] R.kind = "Result" -> R.ok.kind = "derived" /\ DerivedBadRequestHandler(R.ok)
      [] OTHER -> DefaultBadRequestHandler

\* <R as ApiResponse>::BAD_REQUEST_HANDLER: (), PlainText<T> and Result<T, E>
\* do not set it
BAD_REQUEST_HANDLER(R) ==
    IF R.kind = "derived" THEN DerivedBadRequestHandler(R)
    ELSE DefaultBadRequestHandler

\* unreachable!()
Panic == [panic |-> "internal error: entered unreachable code"]

\* the trait's default from_parse_request_error
DefaultFromParseRequestError(err) == Panic

\* <R as ApiResponse>::from_parse_request_error(err): (), PlainText<T> and
\* Result<T, E> do not define it
FromParseRequestError(R, err) ==
    IF R.kind = "derived" /\ DerivedBadRequestHandler(R)
    THEN [BadRequestAwareResponse |-> err]
    ELSE DefaultFromParseRequestError(err)

MetaResponse(status, content) ==
    [description |-> None, status |-> status, content |-> content, headers |-> <<>>]

RECURSIVE ResponseMeta(_)
\* <R as ApiResponse>::meta()
ResponseMeta(R) ==
    CASE R.kind = "()" -> [responses |-> <<MetaResponse(Some(200), <<>>)>>]
      [] R.kind = "PlainText" ->
            [responses |-> <<MetaResponse(Some(200),
                                <<MetaMediaType(TextPlain, [inline |-> "string"])>>)>>]
      [] R.kind = "derived" ->
            [responses |-> <<MetaResponse(Some(200), <<>>),
                             MetaResponse(Some(IF DerivedBadRequestHandler(R) THEN 400 ELSE 409),
                                          <<>>)>>]
      [] R.kind = "Result" -> ResponseMeta(R.ok)

RECURSIVE ResponseRegister(_, _)
\* <R as ApiResponse>::register(registry)
ResponseRegister(R, registry) ==
    CASE R.kind \in {"()", "PlainText"} -> registry
      [] R.kind = "derived" -> CreateSchema(registry, "Pet", <<R.name, "Pet">>)
      [] R.kind = "Result" -> ResponseRegister(R.ok, registry)

\* the framework-wide bad-request response
DefaultBadRequest(err) == [status |-> 400, reason |-> err]

\* what an operation answers a request it could not parse: the response
\* type's own conversion when it declares one, the default response otherwise
RespondToParseError(R, err) ==
    IF BAD_REQUEST_HANDLER(R) THEN FromParseRequestError(R, err)
    ELSE DefaultBadRequest(err)

\* inputs: the error a request failed to parse with
ParseRequestErrors ==
    {ExpectContentType, ContentTypeNotSupported(TextPlain), ParseRequestBody("io error")}

(***************************************************************************)
(* The calls.  A call starts from the idle state and leaves its arguments  *)
(* and its outcome in the state; Return makes way for the next call.       *)
(***************************************************************************)
Idle == op = "idle"

CallParseFromJSON ==
    /\ Idle
    /\ \E ty \in IntTypes, value \in JsonValues :
        /\ op' = "parse_from_json"
        /\ args' = [ty |-> ty, value |-> value]
        /\ ret' = ParseFromJSON(ty, value)

CallToJSON ==
    /\ Idle
    /\ \E ty \in IntTypes :
        \E v \in ValuesOf(ty) :
            /\ op' = "to_json"
            /\ args' = [ty |-> ty, v |-> v]
            /\ ret' = ToJSON(ty, v)

\* parse_from_json(v.to_json())
CallRoundTrip ==
    /\ Idle
    /\ \E ty \in IntTypes :
        \E v \in ValuesOf(ty) :
            /\ op' = "round_trip"
            /\ args' = [ty |-> ty, v |-> v]
            /\ ret' = ParseFromJSON(ty, ToJSON(ty, v))

CallParseFromParameter ==
    /\ Idle
    /\ \E ty \in IntTypes, value \in {None} \cup {Some(t) : t \in ParamTexts} :
        /\ op' = "parse_from_parameter"
        /\ args' = [ty |-> ty, value |-> value]
        /\ ret' = ParseFromParameter(ty, value)

CallDateTimeParseFromParameter ==
    /\ Idle
    /\ \E value \in {None, Some("text")}, chrono \in ChronoAnswers :
        /\ op' = "parse_from_parameter"
        /\ args' = [ty |-> "datetime", value |-> value, chrono |-> chrono]
        /\ ret' = DateTimeParseFromParameter(value, chrono)

CallParseFromMultipart ==
    /\ Idle
    /\ \E ty \in IntTypes, field \in {None} \cup {Some(t) : t \in FieldTexts} :
        /\ op' = "parse_from_multipart"
        /\ args' = [ty |-> ty, field |-> field]
        /\ ret' = ParseFromMultipart(ty, field)

CallDateTimeParseFromMultipart ==
    /\ Idle
    /\ \E field \in {None, Some(Ok("text")), Some(IoError)}, chrono \in ChronoAnswers :
        /\ op' = "parse_from_multipart"
        /\ args' = [ty |-> "datetime", field |-> field, chrono |-> chrono]
        /\ ret' = DateTimeParseFromMultipart(field, chrono)

CallApiRequestFromRequest ==
    /\ Idle
    /\ \E T \in PayloadTypes, request \in Requests, body \in Bodies :
        /\ op' = "api_request_from_request"
        /\ args' = [T |-> T, request |-> request, body |-> body]
        /\ ret' = ApiRequestFromRequest(T, request, body)

CallApiRequestMeta ==
    /\ Idle
    /\ \E T \in PayloadTypes :
        /\ op' = "api_request_meta"
        /\ args' = [T |-> T]
        /\ ret' = ApiRequestMeta(T)

CallOptionFromRequest ==
    /\ Idle
    /\ \E T \in SecuritySchemes, req \in AuthRequests, query \in Queries :
        /\ op' = "option_from_request"
        /\ args' = [T |-> T, req |-> req, query |-> query]
        /\ ret' = OptionFromRequest(T, req, query)

CallOptionRegister ==
    /\ Idle
    /\ \E T \in SecuritySchemes, registry \in Registries :
        /\ op' = "option_register"
        /\ args' = [T |-> T, registry |-> registry]
        /\ ret' = [name |-> OptionName(T), registry |-> OptionRegister(T, registry)]

CallOpenApiMeta ==
    /\ Idle
    /\ \E c \in Compositions :
        /\ op' = "open_api_meta"
        /\ args' = c
        /\ ret' = Meta(c.api)

CallOpenApiRegister ==
    /\ Idle
    /\ \E c \in Compositions, registry \in Registries :
        /\ op' = "open_api_register"
        /\ args' = [leaves |-> c.leaves, api |-> c.api, registry |-> registry]
        /\ ret' = Register(c.api, registry)

CallOpenApiAddRoutes ==
    /\ Idle
    /\ \E c \in Compositions, route \in Routes :
        /\ op' = "open_api_add_routes"
        /\ args' = [leaves |-> c.leaves, api |-> c.api, route |-> route]
        /\ ret' = AddRoutes(c.api, route)

CallApiResponseMeta ==
    /\ Idle
    /\ \E R \in ResponseTypes :
        /\ op' = "api_response_meta"
        /\ args' = [R |-> R]
        /\ ret' = ResponseMeta(R)

CallApiResponseRegister ==
    /\ Idle
    /\ \E R \in ResponseTypes, registry \in Registries :
        /\ op' = "api_response_register"
        /\ args' = [R |-> R, registry |-> registry]
        /\ ret' = ResponseRegister(R, registry)

CallFromParseRequestError ==
    /\ Idle
    /\ \E R \in ResponseTypes, err \in ParseRequestErrors :
        /\ op' = "from_parse_request_error"
        /\ args' = [R |-> R, err |-> err]
        /\ ret' = FromParseRequestError(R, err)

CallRespondToParseError ==
    /\ Idle
    /\ \E R \in ResponseTypes, err \in ParseRequestErrors :
        /\ op' = "respond_to_parse_error"
        /\ args' = [R |-> R, err |-> err]
        /\ ret' = [flag |-> BAD_REQUEST_HANDLER(R), response |-> RespondToParseError(R, err)]

Return ==
    /\ ~Idle
    /\ op' = "idle"
    /\ args' = <<>>
    /\ ret' = <<>>

Init == op = "idle" /\ args = <<>> /\ ret = <<>>

Next ==
    \/ CallParseFromJSON
    \/ CallToJSON
    \/ CallRoundTrip
    \/ CallParseFromParameter
    \/ CallDateTimeParseFromParameter
    \/ CallParseFromMultipart
    \/ CallDateTimeParseFromMultipart
    \/ CallApiRequestFromRequest
    \/ CallApiRequestMeta
    \/ CallOptionFromRequest
    \/ CallOptionRegister
    \/ CallOpenApiMeta
    \/ CallOpenApiRegister
    \/ CallOpenApiAddRoutes
    \/ CallApiResponseMeta
    \/ CallApiResponseRegister
    \/ CallFromParseRequestError
    \/ CallRespondToParseError
    \/ Return

Spec == Init /\ [][Next]_vars

(***************************************************************************)
(* Claims about the integer types and DateTime.                            *)
(***************************************************************************)
\* the JSON value an integer literal x arrives as
JsonLiteral(x) == JsonNumber(NumberOfLiteral(x))

\* C3: for every integer type, parse_from_json accepts exactly the literals
\* of [MIN, MAX], returning the number, rejects MIN - 1 and MAX + 1 with the
\* "Only integers from MIN to MAX are accepted." error, and rejects a value
\* that is no number with the expected_type error.
C3_JsonRangeAsClaimed ==
    op = "parse_from_json" =>
        /\ \A x \in Literals :
              args.value = JsonLiteral(x) =>
                  /\ ret.ok <=> InRange(args.ty, x)
                  /\ ret.ok => ret.val = x
        /\ args.value \in {JsonLiteral(Pred(TypeMin(args.ty))),
                           JsonLiteral(Succ(TypeMax(args.ty)))}
              => ret = Err(OutOfRange(args.ty))
        /\ args.value.kind # "Number" => ret = Err(ExpectedType(args.value))

\* the i32 parameter text "2147483648"
I32MaxPlusOneText == <<"2", "1", "4", "7", "4", "8", "3", "6", "4", "8">>

\* an integer parameter text that denotes x, outside the type's range
OutOfRangeParameter(x) ==
    /\ op = "parse_from_parameter"
    /\ args.ty \in IntTypes
    /\ x \in Literals
    /\ ~InRange(args.ty, x)
    /\ args.value = Some(ToText(x))

\* C4 as stated: a parameter text denoting a value outside [MIN, MAX] is
\* rejected with the out-of-range error naming MIN and MAX.
C4_ParameterRangeErrorAsClaimed ==
    \A x \in Literals :
        OutOfRangeParameter(x) => ret = Err(OutOfRange(args.ty))

\* C4 amended: such a text is rejected with the custom error that wraps the
\* integer parser's own error (positive overflow above MAX, negative
\* overflow below a signed MIN, invalid digit for the minus sign of an
\* unsigned type), which names no bound; "2147483648" as an i32 gives the
\* positive-overflow one.
C4_ParameterOverflowIsCustom ==
    \A x \in Literals :
        OutOfRangeParameter(x) =>
            /\ ~ret.ok
            /\ ret.err = Custom(IF ~x.neg THEN "PosOverflow"
                                ELSE IF args.ty \in SignedTypes THEN "NegOverflow"
                                ELSE "InvalidDigit")
            /\ ret.err # OutOfRange(args.ty)

C4_Witness ==
    /\ op = "parse_from_parameter"
    /\ args.ty = "i32"
    /\ args.value = Some(I32MaxPlusOneText)
    /\ I32MaxPlusOneText = ToText(Succ(TypeMax("i32")))
    /\ ret = Err(Custom("PosOverflow"))

\* C5: parse_from_parameter(None) and parse_from_multipart(None) fail with
\* the expected_input error, for the eight integer types and DateTime.
C5_MissingInput ==
    /\ (op = "parse_from_parameter" /\ ~args.value.some) => ret = Err(ExpectedInput)
    /\ (op = "parse_from_multipart" /\ ~args.field.some) => ret = Err(ExpectedInput)

C5_Witness ==
    /\ op = "parse_from_parameter"
    /\ args.ty = "i32"
    /\ args.value = None
    /\ ret = Err(ExpectedInput)

\* C9: parse_from_json(to_json(v)) = Ok(v) for every value v of every
\* integer type, MIN and MAX included, and to_json always yields a JSON
\* number holding v.
C9_RoundTrip ==
    /\ op = "round_trip" => ret = Ok(args.v)
    /\ op = "to_json" =>
          /\ ret.kind = "Number"
          /\ ret.n.rep \in {"PosInt", "NegInt"}
          /\ ret.n.val = args.v

C9_Witness ==
    /\ op = "round_trip"
    /\ args.ty = "u64"
    /\ args.v = U64_MAX
    /\ ret = Ok(U64_MAX)

(***************************************************************************)
(* Claims about content negotiation.                                       *)
(***************************************************************************)
\* the header "application/json; charset=utf-8"
JsonWithCharset == ApplicationJson \o <<";", " ", "c", "h", "a", "r", "s", "e", "t", "=", "u", "t", "f", "-", "8">>

\* the essence of the header s is T::CONTENT_TYPE
EssenceMatches(T, s) ==
    /\ ParseMime(s).ok
    /\ EssenceStr(ParseMime(s).val) = CONTENT_TYPE(T)

\* C1: without a content-type header from_request fails with
\* ExpectContentType; with one whose essence is not T::CONTENT_TYPE it fails
\* with ContentTypeNotSupported carrying the header exactly as received
\* ("text/plain" against a JSON payload); either way T's parser has not run
\* and the body is as it was.
C1_NegotiationFailures ==
    op = "api_request_from_request" =>
        LET content_type == args.request.content_type
        IN  /\ ~content_type.some =>
                  ret = Outcome(Err(ExpectContentType), args.body, FALSE)
            /\ (content_type.some /\ ~EssenceMatches(args.T, content_type.val)) =>
                  ret = Outcome(Err(ContentTypeNotSupported(content_type.val)),
                                args.body, FALSE)
            /\ (args.T = "Json" /\ content_type = Some(TextPlain)) =>
                  ret.result = Err(ContentTypeNotSupported(TextPlain))

C1_Witness ==
    /\ op = "api_request_from_request"
    /\ args.T = "Json"
    /\ args.request.content_type = Some(TextPlain)
    /\ ~args.body.taken
    /\ ret.result = Err(ContentTypeNotSupported(TextPlain))
    /\ ~ret.parsed
    /\ ret.body = args.body

\* C2: from_request hands the request to T's parser exactly when the
\* essence of the content type, parameters ignored, is T::CONTENT_TYPE
\* ("application/json; charset=utf-8" for a JSON payload); it then returns
\* what T's parser returns, and the accepted essence is the one content
\* type that meta() lists for T.
C2_DelegatesOnEssence ==
    op = "api_request_from_request" =>
        LET content_type == args.request.content_type
            accepted == content_type.some /\ EssenceMatches(args.T, content_type.val)
        IN  /\ ret.parsed <=> accepted
            /\ accepted =>
                  /\ ret = ParsePayloadFromRequest(args.T, args.request, args.body)
                  /\ Len(ApiRequestMeta(args.T).content) = 1
                  /\ ApiRequestMeta(args.T).content[1].content_type
                        = EssenceStr(ParseMime(content_type.val).val)
            /\ (args.T = "Json" /\ content_type = Some(JsonWithCharset)) => ret.parsed

C2_Witness ==
    /\ op = "api_request_from_request"
    /\ args.T = "Json"
    /\ args.request.content_type = Some(JsonWithCharset)
    /\ args.body = Body(FALSE, "{\"a\": 1}")
    /\ ret.parsed
    /\ ret.result.ok
    /\ ret.body.taken

(***************************************************************************)
(* Claims about Option<S> as a security scheme.                            *)
(***************************************************************************)
\* C6: Option<S>::from_request never fails: it is Ok(None) exactly when
\* S::from_request fails on the same request and query, and Ok(Some(v))
\* exactly when S::from_request is Ok(v); Option<S> has S's NAME and
\* registers what S registers.
C6_OptionNeverFails ==
    /\ op = "option_from_request" =>
          LET inner == SchemeFromRequest(args.T, args.req, args.query)
          IN  /\ ret.ok
              /\ ret.val = None <=> ~inner.ok
              /\ inner.ok => ret.val = Some(inner.val)
    /\ op = "option_register" =>
          /\ ret.name = SchemeName(args.T)
          /\ ret.registry = SchemeRegister(args.T, args.registry)

\* a malformed Basic header read as no credential
C6_Witness ==
    /\ op = "option_from_request"
    /\ args.T = "MyBasicAuthorization"
    /\ args.req.authorization = Some("Basic !!!")
    /\ ~SchemeFromRequest(args.T, args.req, args.query).ok
    /\ ret = Ok(None)

(***************************************************************************)
(* Claims about CombinedAPI.                                               *)
(***************************************************************************)
\* the metadata of the API objects of a list, one after the other
RECURSIVE MetaInOrder(_)
MetaInOrder(leaves) ==
    IF leaves = <<>> THEN <<>>
    ELSE UserApiMeta(Head(leaves)) \o MetaInOrder(Tail(leaves))

\* C7: CombinedAPI<A, B>::meta() is A::meta() followed by B::meta(), and
\* three API objects combined in either grouping give the operations of A,
\* B, C in declaration order.
C7_MetaInDeclarationOrder ==
    op = "open_api_meta" =>
        /\ ret = Meta(args.api.a) \o Meta(args.api.b)
        /\ ret = MetaInOrder(args.leaves)

C7_Witness ==
    /\ op = "open_api_meta"
    /\ Len(args.leaves) = 3
    /\ args.api.a.kind = "api"
    /\ \A i \in 1..3 : args.leaves[i].paths # <<>>
    /\ ret = MetaInOrder(args.leaves)

\* the places <<i, j>> where the j-th operation of the i-th API object of
\* the list declares path p
Declarations(leaves, p) ==
    {<<i, j>> \in (1..Len(leaves)) \X (1..MaxOps) :
        j <= Len(leaves[i].paths) /\ leaves[i].paths[j] = p}

\* the last of them in declaration order
LastDeclaration(leaves, p) ==
    CHOOSE d \in Declarations(leaves, p) :
        \A e \in Declarations(leaves, p) :
            e[1] < d[1] \/ (e[1] = d[1] /\ e[2] <= d[2])

\* the first API object of the list that registers type n
FirstRegistering(leaves, n) ==
    CHOOSE i \in 1..Len(leaves) :
        /\ n \in leaves[i].types
        /\ \A k \in 1..(i - 1) : n \notin leaves[k].types

\* C8: add_routes applies the routes of the API objects in declaration
\* order on top of the route table it is given, so a path is served by the
\* last API object that declares it (by the given table when none does);
\* register registers the API objects' types in declaration order into the
\* one registry.
C8_RoutesInDeclarationOrder ==
    /\ op = "open_api_add_routes" =>
          /\ ret = AddRoutes(args.api.b, AddRoutes(args.api.a, args.route))
          /\ DOMAIN ret = DOMAIN args.route
                            \cup {p \in Paths : Declarations(args.leaves, p) # {}}
          /\ \A p \in DOMAIN ret :
                ret[p] = IF Declarations(args.leaves, p) = {} THEN args.route[p]
                         ELSE LET d == LastDeclaration(args.leaves, p)
                              IN  Endpoint(args.leaves[d[1]], d[2])
    /\ op = "open_api_register" =>
          /\ ret = Register(args.api.b, Register(args.api.a, args.registry))
          /\ ret.security_schemes = args.registry.security_schemes
          /\ DOMAIN ret.schemas = DOMAIN args.registry.schemas
                \cup {n \in TypeNames : \E i \in 1..Len(args.leaves) : n \in args.leaves[i].types}
          /\ \A n \in DOMAIN ret.schemas :
                ret.schemas[n] = IF n \in DOMAIN args.registry.schemas
                                 THEN args.registry.schemas[n]
                                 ELSE <<args.leaves[FirstRegistering(args.leaves, n)].id, n>>

\* A and B declare the same path and B's route is the one in effect
C8_Witness ==
    /\ op = "open_api_add_routes"
    /\ Len(args.leaves) = 2
    /\ args.leaves[1].paths = <<"/a">>
    /\ args.leaves[2].paths = <<"/a">>
    /\ "/a" \in DOMAIN args.route
    /\ ret["/a"] = Endpoint(args.leaves[2], 1)

(***************************************************************************)
(* Claims about ApiResponse.                                               *)
(***************************************************************************)
\* (), PlainText<T> and Result<T, E>
KeepsDefaults(R) == R.kind \in {"()", "PlainText", "Result"}

\* C10: Result<T, E> has T's meta() and register() but the default
\* BAD_REQUEST_HANDLER (false) and the default, panicking
\* from_parse_request_error, whatever T declares; so have () and
\* PlainText<T>.  A caller that looks at the flag first never panics on
\* them and answers with the default bad-request response.
C10_ResultKeepsDefaults ==
    /\ (op = "api_response_meta" /\ args.R.kind = "Result") =>
          ret = ResponseMeta(args.R.ok)
    /\ (op = "api_response_register" /\ args.R.kind = "Result") =>
          ret = ResponseRegister(args.R.ok, args.registry)
    /\ (op = "from_parse_request_error" /\ KeepsDefaults(args.R)) =>
          ret = Panic
    /\ (op = "respond_to_parse_error" /\ KeepsDefaults(args.R)) =>
          /\ ret.flag = FALSE
          /\ ret.response # Panic
          /\ ret.response = DefaultBadRequest(args.err)

\* a Result around a type that declares a bad-request handler
C10_Witness ==
    /\ op = "respond_to_parse_error"
    /\ args.R = Result(Derived("BadRequestAwareResponse"))
    /\ BAD_REQUEST_HANDLER(args.R.ok)
    /\ ret.flag = FALSE
    /\ ret.response = DefaultBadRequest(args.err)
====
